---- MODULE Spec2Model ----
(***************************************************************************)
(* The ingestion-to-curation pipeline of whatsapp-wizard:                  *)
(*   MessageStorage      (src/unnamed/part_002)                            *)
(*   MessageCurator      (src/messageStorage.js, lines 342-693)            *)
(*   NotificationService (src/unnamed/part_001)                            *)
(* Every async function is cut at its await points: one action per         *)
(* continuation.  A file read is taken when its promise resolves, a file   *)
(* write replaces the file when its promise resolves; the text written is  *)
(* the JSON.stringify taken when the write was started.                    *)
(***************************************************************************)
EXTENDS Integers, Sequences, FiniteSets, TLC

(* ---------------------------- bounds ----------------------------------- *)
\* invocations (addMessage, triggerCuration) of a behaviour that runs them one
\* after another
MaxCalls == 3
\* invocations of a behaviour in which they overlap
MaxOverlapCalls == 2
\* clearGroup / clearAll commands in one behaviour
MaxClears == 1
\* largest configured maxMessagesPerGroup (config.messageScraping)
MaxCap == 2
\* maxMessagesPerGroup of the behaviours in which invocations overlap
OverlapCap == 1
\* items of a ranking response that does not follow the ranking contract
MaxItems == 2
\* the same, in the behaviours in which invocations overlap
OverlapItems == 1

\* events given to the MessageQueue in one behaviour
MaxEvents == 4
\* events of one addMessages call
MaxBatch == 2
\* largest configured concurrency of the MessageQueue
MaxConcurrency == 2
\* clock advances in a behaviour of the MessageQueue
MaxQueueTicks == 2
\* the time, in ms, a behaviour with rate limiting covers
MaxRateSpan == 7000
\* clock advances in a behaviour that marks messages as processed
MaxMarkTicks == 2
\* events given to the queue and invocations of the store in a behaviour of both
MaxIntakeEvents == 2
MaxIntakeCalls == 1

\* concurrent invocations (async calls in flight)
Tasks == {1, 2}
\* group ids and message ids, in the order in which a behaviour first uses them
GroupOrder == <<"g1", "g2">>
IdOrder == <<"a", "b">>
Groups == {GroupOrder[i] : i \in 1..Len(GroupOrder)}
MsgIds == {IdOrder[i] : i \in 1..Len(IdOrder)}
\* an id the ranking capability may invent
ForeignId == "z"
\* curation.relevance values (scaled)
Rels == {1, 2}

(* ---------------------------- helpers ---------------------------------- *)
SeqToSet(s) == {s[i] : i \in 1..Len(s)}

RECURSIVE SeqFilter(_, _)
\* Array.prototype.filter with the predicate given as the set of kept values
SeqFilter(s, keep) ==
  IF s = <<>> THEN <<>>
  ELSE IF Head(s) \in keep THEN <<Head(s)>> \o SeqFilter(Tail(s), keep)
       ELSE SeqFilter(Tail(s), keep)

\* all sequences over S of length 0..n
SeqsUpTo(S, n) == UNION {[1..k -> S] : k \in 0..n}

\* JS Map with key k removed
MapDelete(f, k) == [x \in (DOMAIN f) \ {k} |-> f[x]]
\* JS Map with key k set
MapSet(f, k, v) == [x \in (DOMAIN f) \cup {k} |-> IF x = k THEN v ELSE f[x]]
EmptyMap == [x \in {} |-> 0]

(* ---------------------------- state ------------------------------------ *)
VARIABLES
  config,        \* config.messageScraping: maxMessagesPerGroup, respectRateLimit
  now,           \* Date.now(), ms
  messages,      \* MessageStorage.messages: Map groupId -> array of messages
  messageCount,  \* MessageStorage.messageCount: Map groupId -> count
  rateLimiter,   \* MessageStorage.rateLimiter: Map groupId -> last accepted time
  arrayId,       \* identity of the array object each key of messages holds
  nextArray,     \* arrays allocated so far
  storeFile,     \* the file at filePath (scraped messages snapshot)
  ledgerFile,    \* relevant_messages.json
  delivered,     \* per id: sock.sendMessage calls that resolved
  accepted,      \* history: per group, the messages pushed, in order
  nCalls,        \* invocations started so far
  nClears,       \* clear commands executed so far
  task,          \* per invocation in flight: continuation point and locals
  acceptedAt,    \* history: per group, the times at which a call passed checkRateLimit
  rejects,       \* history: addMessage calls that returned at the filters / rate limit
  failedBatch,   \* history: the batch of a cycle whose ledger write was rejected, until
                 \* the next trigger has looked for a backlog and formed its batch
  concurrency,   \* MessageQueue.concurrency
  queue,         \* MessageQueue.queue: the backlog, as numbers of events
  processing,    \* MessageQueue.processing
  activeWorkers, \* MessageQueue.activeWorkers
  groupMetadataCache, \* MessageQueue.groupMetadataCache: Map jid -> name, timestamp
  immediates,    \* setImmediate(() => this.processQueue()) callbacks not yet run
  events,        \* history: the events given to addMessages so far, in order
  workers,       \* per event: where its processMessage call stands, the name resolved
  started,       \* history: the events in the order their workers were started
  storeCalls     \* history: per event, invocations of the store's add operation

\* the state of the MessageQueue and the state of the store and curator
queueVars == <<concurrency, queue, processing, activeWorkers, groupMetadataCache,
               immediates, events, workers, started, storeCalls>>
rateHistory == <<acceptedAt, rejects, failedBatch>>
storeVars == <<config, messages, messageCount, rateLimiter, arrayId, nextArray,
               storeFile, ledgerFile, delivered, accepted, nCalls, nClears, task,
               rateHistory>>

vars == <<config, now, messages, messageCount, rateLimiter, arrayId, nextArray,
          storeFile, ledgerFile, delivered, accepted, nCalls, nClears, task, queueVars,
          rateHistory>>

AllIds == MsgIds \cup {ForeignId}

\* locals of an invocation that is not running
IdleTask ==
  [pc |-> "idle", g |-> "none", id |-> "none", seq |-> 0, fromMe |-> FALSE, ref |-> 0,
   wbuf |-> EmptyMap, batch |-> <<>>, status |-> "none", newRel |-> <<>>,
   existing |-> <<>>, lbuf |-> <<>>, unique |-> <<>>, results |-> <<>>]

\* try blocks in which the catch of triggerCuration rethrows (sensitivity of C27)
TryBlocksOuterRethrows(point) ==
  IF point = "saveToFile"
  THEN <<[fn |-> "saveToFile", rethrows |-> TRUE], [fn |-> "addMessage", rethrows |-> FALSE]>>
  ELSE <<[fn |-> "triggerCuration", rethrows |-> TRUE]>>

\* the try blocks around a point where an I/O call rejects, innermost first, for the
\* rejections that leave the function they occur in: the persist of addMessage
\* (part_002 lines 404-407, 80-83), the persist of the marking (404-407, 466-469), the
\* snapshot read of the batch step (messageStorage.js 481-485, part_002 466-469) and
\* the ledger write (messageStorage.js 660-663, 481-485, part_002 466-469), and the
\* store call of a queue worker (part_000 lines 55-57)
TryBlocks(point) ==
  CASE point = "saveToFile" ->
         <<[fn |-> "saveToFile", rethrows |-> TRUE],
           [fn |-> "addMessage", rethrows |-> FALSE]>>
    [] point = "markSave" ->
         <<[fn |-> "saveToFile", rethrows |-> TRUE],
           [fn |-> "triggerCuration", rethrows |-> FALSE]>>
    [] point = "snapshotRead" ->
         <<[fn |-> "processScrapedMessages", rethrows |-> TRUE],
           [fn |-> "triggerCuration", rethrows |-> FALSE]>>
    [] point = "ledgerWrite" ->
         <<[fn |-> "saveCuratedMessages", rethrows |-> TRUE],
           [fn |-> "processScrapedMessages", rethrows |-> TRUE],
           [fn |-> "triggerCuration", rethrows |-> FALSE]>>
    [] point = "storeCall" ->
         <<[fn |-> "MessageQueue.processMessage", rethrows |-> FALSE]>>

\* an exception goes up the try blocks until a catch does not rethrow it
RECURSIVE Unwind(_)
Unwind(blocks) ==
  IF blocks = <<>> THEN "thrown"
  ELSE IF Head(blocks).rethrows THEN Unwind(Tail(blocks)) ELSE "idle"

\* the invocation after a rejection at the point: its catch ends the call (addMessage
\* lines 80-84, triggerCuration lines 466-470), or the exception leaves the call
AfterThrow(point) == [IdleTask EXCEPT !.pc = Unwind(TryBlocks(point))]

(* ---------------------------- MessageStorage --------------------------- *)
filtersConfig ==
  [minLength |-> 1, maxLength |-> 2, excludeMedia |-> TRUE, excludeForwarded |-> TRUE]

\* an inbound event: key.id, text length, media, forwardingScore, key.fromMe
GoodEvent(id) ==
  [id |-> id, len |-> 1, media |-> FALSE, fwd |-> FALSE, fromMe |-> FALSE]
BadEvents ==
  { [id |-> "a", len |-> 1, media |-> FALSE, fwd |-> FALSE, fromMe |-> TRUE],
    [id |-> "a", len |-> 0, media |-> FALSE, fwd |-> FALSE, fromMe |-> FALSE],
    [id |-> "a", len |-> 3, media |-> FALSE, fwd |-> FALSE, fromMe |-> FALSE],
    [id |-> "a", len |-> 1, media |-> TRUE, fwd |-> FALSE, fromMe |-> FALSE],
    [id |-> "a", len |-> 1, media |-> FALSE, fwd |-> TRUE, fromMe |-> FALSE] }
Events == {GoodEvent(id) : id \in MsgIds} \cup BadEvents

\* the filters without the test of key.fromMe (sensitivity of C28)
shouldStoreMessageNoBotFilter(ev) ==
  IF filtersConfig.minLength # 0 /\ ev.len < filtersConfig.minLength THEN FALSE
  ELSE IF filtersConfig.maxLength # 0 /\ ev.len > filtersConfig.maxLength THEN FALSE
  ELSE IF filtersConfig.excludeMedia /\ ev.media THEN FALSE
  ELSE IF filtersConfig.excludeForwarded /\ ev.fwd THEN FALSE
  ELSE TRUE

shouldStoreMessage(ev) ==
  IF filtersConfig.minLength # 0 /\ ev.len < filtersConfig.minLength THEN FALSE
  ELSE IF filtersConfig.maxLength # 0 /\ ev.len > filtersConfig.maxLength THEN FALSE
  ELSE IF filtersConfig.excludeMedia /\ ev.media THEN FALSE
  ELSE IF filtersConfig.excludeForwarded /\ ev.fwd THEN FALSE
  ELSE IF ev.fromMe THEN FALSE
  ELSE TRUE

maxMessagesPerMinute == 10
minInterval == 60000 \div maxMessagesPerMinute

\* a rate check that never records the time of an accepted message (sensitivity of C19)
checkRateLimitNoStamp(g) ==
  IF ~config.respectRateLimit THEN [ok |-> TRUE, rl |-> rateLimiter]
  ELSE LET last == IF g \in DOMAIN rateLimiter THEN rateLimiter[g] ELSE 0
       IN [ok |-> now - last >= minInterval, rl |-> rateLimiter]

\* a rate check that records the time before it compares, also for a message it
\* rejects (sensitivity of C20)
checkRateLimitStampFirst(g) ==
  IF ~config.respectRateLimit THEN [ok |-> TRUE, rl |-> rateLimiter]
  ELSE LET last == IF g \in DOMAIN rateLimiter THEN rateLimiter[g] ELSE 0
       IN [ok |-> now - last >= minInterval, rl |-> MapSet(rateLimiter, g, now)]

\* checkRateLimit: [accepted, rateLimiter afterwards]
checkRateLimit(g) ==
  IF ~config.respectRateLimit THEN [ok |-> TRUE, rl |-> rateLimiter]
  ELSE LET last == IF g \in DOMAIN rateLimiter THEN rateLimiter[g] ELSE 0
       IN IF now - last < minInterval THEN [ok |-> FALSE, rl |-> rateLimiter]
          ELSE [ok |-> TRUE, rl |-> MapSet(rateLimiter, g, now)]

\* processMessage: the stored form of an event (seq stands for timestamp and content;
\* processedAt 0 stands for null; isBot is sender.isBot, line 111)
processMessage(id, seq, fromMe) ==
  [id |-> id, seq |-> seq, isBot |-> fromMe, processed |-> FALSE, processedAt |-> 0]

\* a capacity check that compares with > instead of >= (sensitivity of C7)
CapacityCheckOffByOne(msgs, cnt) ==
  IF cnt > config.maxMessagesPerGroup
  THEN [msgs |-> IF msgs = <<>> THEN <<>> ELSE Tail(msgs), cnt |-> cnt]
  ELSE [msgs |-> msgs, cnt |-> cnt + 1]

\* the capacity check of addMessage (lines 59-65) on the array and count of a group
CapacityCheck(msgs, cnt) ==
  IF cnt >= config.maxMessagesPerGroup
  THEN [msgs |-> IF msgs = <<>> THEN <<>> ELSE Tail(msgs), cnt |-> cnt]
  ELSE [msgs |-> msgs, cnt |-> cnt + 1]

\* a marking loop that leaves a group after its first match (sensitivity of C9)
MarkArrayFirstOnly(msgs, ids) ==
  [i \in 1..Len(msgs) |->
     IF msgs[i].id \in ids /\ \A j \in 1..(i - 1) : msgs[j].id \notin ids
     THEN [msgs[i] EXCEPT !.processed = TRUE, !.processedAt = now] ELSE msgs[i]]

\* the loop of markMessagesAsProcessed (lines 414-421) over one array; new Date() is
\* read for every match
MarkArray(msgs, ids) ==
  [i \in 1..Len(msgs) |->
     IF msgs[i].id \in ids
     THEN [msgs[i] EXCEPT !.processed = TRUE, !.processedAt = now] ELSE msgs[i]]

MarkAll(map, ids) == [g \in DOMAIN map |-> MarkArray(map[g], ids)]

\* a scan that looks at the first message of every group only (sensitivity of C24)
AnyUnprocessedHeadOnly(data) ==
  \E g \in DOMAIN data : data[g] # <<>> /\ ~data[g][1].processed

\* the scan of hasUnprocessedMessages over parsed file data
AnyUnprocessed(data) ==
  \E g \in DOMAIN data : \E i \in 1..Len(data[g]) : ~data[g][i].processed

(* ---------------------------- MessageCurator --------------------------- *)
\* a batching loop without the test of the processed flag (sensitivity of C12)
RECURSIVE FormatGroupAll(_, _)
FormatGroupAll(msgs, g) ==
  IF msgs = <<>> THEN <<>>
  ELSE <<[id |-> Head(msgs).id, seq |-> Head(msgs).seq, groupId |-> g]>>
       \o FormatGroupAll(Tail(msgs), g)

\* the unprocessed messages of one group, tagged with the group id (lines 420-433)
RECURSIVE FormatGroup(_, _)
FormatGroup(msgs, g) ==
  IF msgs = <<>> THEN <<>>
  ELSE (IF ~Head(msgs).processed
        THEN <<[id |-> Head(msgs).id, seq |-> Head(msgs).seq, groupId |-> g]>>
        ELSE <<>>) \o FormatGroup(Tail(msgs), g)

\* a batching loop that leaves after the first group (sensitivity of C30)
FormatFromFirstOnly(data, k) ==
  IF k > Len(GroupOrder) THEN <<>>
  ELSE IF GroupOrder[k] \in DOMAIN data
       THEN FormatGroup(data[GroupOrder[k]], GroupOrder[k]) ELSE <<>>

\* the loop over Object.keys(scrapedData.messages), lines 414-435
RECURSIVE FormatFrom(_, _)
FormatFrom(data, k) ==
  IF k > Len(GroupOrder) THEN <<>>
  ELSE (IF GroupOrder[k] \in DOMAIN data
        THEN FormatGroup(data[GroupOrder[k]], GroupOrder[k]) ELSE <<>>)
       \o FormatFrom(data, k + 1)

formatMessagesForCuration(data) == FormatFrom(data, 1)

BatchIds(batch) == {batch[i].id : i \in 1..Len(batch)}

\* an item of a ranking response; the relevance of an item that is not included and
\* every field of an item with an invented id are read by nothing
Items ==
  [id : MsgIds, include : {TRUE}, relevance : Rels]
  \cup {[id |-> i, include |-> FALSE, relevance |-> 1] : i \in AllIds}

\* the distinct ids of a batch, in order of first occurrence
RECURSIVE DistinctIds(_, _)
DistinctIds(batch, seen) ==
  IF batch = <<>> THEN <<>>
  ELSE IF Head(batch).id \in seen THEN DistinctIds(Tail(batch), seen)
       ELSE <<Head(batch).id>> \o DistinctIds(Tail(batch), seen \cup {Head(batch).id})

\* the ranking contract: every input id exactly once, no other id
WellFormed(items, batch) ==
  /\ {items[i].id : i \in 1..Len(items)} = BatchIds(batch)
  /\ \A i, j \in 1..Len(items) : items[i].id = items[j].id => i = j

\* some candidate of the batch has no item
OmitsId(items, batch) ==
  \E c \in BatchIds(batch) : \A i \in 1..Len(items) : items[i].id # c

\* what the ranking capability may answer for a batch: an answer that follows the
\* contract, or any list of at most n items
Responses(batch, n) ==
  LET ids == DistinctIds(batch, {})
  IN {r \in [1..Len(ids) -> Items] : \A i \in 1..Len(ids) : r[i].id = ids[i]}
     \cup SeqsUpTo(Items, n)

\* how the call of the ranking capability may end: it throws (transport error,
\* unparsable content) or it gives a list of items
CallFailed == [failed |-> TRUE, items |-> <<>>]
RankOutcomes(batch, n) ==
  {CallFailed} \cup {[failed |-> FALSE, items |-> r] : r \in Responses(batch, n)}

\* lines 598-615: one record per item that is included and names a candidate
RECURSIVE newRelevantMessages(_, _)
newRelevantMessages(items, batch) ==
  IF items = <<>> THEN <<>>
  ELSE (IF Head(items).id \in BatchIds(batch) /\ Head(items).include
        THEN <<[id |-> Head(items).id, relevance |-> Head(items).relevance,
                notified |-> FALSE]>>
        ELSE <<>>) \o newRelevantMessages(Tail(items), batch)

LedgerIds(recs) == {recs[i].id : i \in 1..Len(recs)}

\* lines 618-619: the new records whose id the existing ledger does not hold
RECURSIVE uniqueNewMessages(_, _)
uniqueNewMessages(new, existing) ==
  IF new = <<>> THEN <<>>
  ELSE (IF Head(new).id \in LedgerIds(existing) THEN <<>> ELSE <<Head(new)>>)
       \o uniqueNewMessages(Tail(new), existing)

\* the insertion of a comparator a - b, lowest first (sensitivity of C10)
RECURSIVE InsertAscending(_, _)
InsertAscending(r, sorted) ==
  IF sorted = <<>> THEN <<r>>
  ELSE IF Head(sorted).relevance <= r.relevance
       THEN <<Head(sorted)>> \o InsertAscending(r, Tail(sorted))
       ELSE <<r>> \o sorted

\* insert r into a list sorted by relevance, highest first, after its equals
RECURSIVE InsertByRelevance(_, _)
InsertByRelevance(r, sorted) ==
  IF sorted = <<>> THEN <<r>>
  ELSE IF Head(sorted).relevance >= r.relevance
       THEN <<Head(sorted)>> \o InsertByRelevance(r, Tail(sorted))
       ELSE <<r>> \o sorted

\* line 624: allMessages.sort((a, b) => b.curation.relevance - a.curation.relevance),
\* a stable sort
RECURSIVE SortFrom(_, _)
SortFrom(recs, acc) ==
  IF recs = <<>> THEN acc
  ELSE SortFrom(Tail(recs), InsertByRelevance(Head(recs), acc))

sortByRelevance(recs) == SortFrom(recs, <<>>)

\* lines 617-624: the ledger a merge writes
allMessages(existing, unique) == sortByRelevance(existing \o unique)

\* lines 673-678 of updateNotificationStatus
SetNotified(recs, ids) ==
  [i \in 1..Len(recs) |->
     IF recs[i].id \in ids THEN [recs[i] EXCEPT !.notified = TRUE] ELSE recs[i]]

\* line 652: the ids of the successful notification results
SuccessIds(results) == {results[i].id : i \in {j \in 1..Len(results) : results[j].ok}}

\* history: how the ranking call of a cycle ended
RankStatus(outcome, batch) ==
  IF outcome.failed THEN "failed"
  ELSE IF OmitsId(outcome.items, batch) THEN "omits"
  ELSE IF WellFormed(outcome.items, batch) THEN "wellformed"
  ELSE "extra"

(* ---------------------------- MessageQueue ---------------------------- *)
\* options.concurrency || 3 and cacheExpiry (part_000 lines 9, 12)
defaultConcurrency == 3
cacheExpiry == 300000

\* a private chat: a remoteJid that does not end with @g.us
PrivateJid == "p"
IsGroup(jid) == jid \in Groups

\* an upserted message: its remoteJid, whether it has a message body, key.fromMe
EventKinds ==
  [jid : Groups \cup {PrivateJid}, hasMessage : {TRUE}, fromMe : {FALSE}]
  \cup {[jid |-> "g1", hasMessage |-> TRUE, fromMe |-> TRUE],
        [jid |-> "g1", hasMessage |-> FALSE, fromMe |-> FALSE]}

\* the test of addMessages, line 18
Eligible(ev) == ev.hasMessage /\ ~ev.fromMe

\* the methods a MessageStorage object has (part_002; lines 1-341 of messageStorage.js
\* give the same names up to clearAll)
StoreMethods ==
  {"addMessage", "processMessage", "extractText", "getMessageType", "hasMedia",
   "extractQuotedMessage", "shouldStoreMessage", "checkRateLimit", "humanLikeDelay",
   "getGroupMessages", "getAllMessages", "getStats", "autoSave", "save", "load",
   "clearGroup", "clearAll", "saveToFile", "markMessagesAsProcessed",
   "hasUnprocessedMessages", "triggerCuration"}

\* this.messageStorage.<name>(...): a call of a property that is not a function throws
\* a TypeError
Invoke(name) == IF name \in StoreMethods THEN "called" ELSE "TypeError"

\* what metadata.subject || 'Unknown Group' gives for a group, and the placeholder
SubjectOf(jid) == <<"subject", jid>>
UnknownGroup == <<"Unknown Group">>

\* a cache test that never lets an entry expire (sensitivity of C25)
CacheHitNoExpiry(jid) == jid \in DOMAIN groupMetadataCache

\* getCachedGroupMetadata, lines 69-73: an entry younger than cacheExpiry
CacheHit(jid) ==
  /\ jid \in DOMAIN groupMetadataCache
  /\ now - groupMetadataCache[jid].timestamp < cacheExpiry

\* a finally block that does not schedule the next drain (sensitivity of C15)
FinallyNoReschedule(q, e) ==
  [q EXCEPT !.activeWorkers = @ - 1, !.workers[e].pc = "done"]

\* a worker whose slot is released in the try block, after the store call, so that a
\* throw skips the release (sensitivity of C16)
FinallyNoRelease(q, e) ==
  [q EXCEPT !.activeWorkers = IF IsGroup(q.events[e].jid) THEN @ ELSE @ - 1,
            !.immediates = IF Len(q.queue) > 0 THEN @ + 1 ELSE @,
            !.workers[e].pc = "done"]

\* the finally block of processMessage (lines 58-65) on the queue state q
Finally(q, e) ==
  [q EXCEPT !.activeWorkers = @ - 1,
            !.immediates = IF Len(q.queue) > 0 THEN @ + 1 ELSE @,
            !.workers[e].pc = "done"]

\* processMessage (lines 42-52) up to its first await, for the event e taken from
\* the backlog
StartWorker(q, e) ==
  LET jid == q.events[e].jid
      q1 == [q EXCEPT !.activeWorkers = @ + 1, !.started = Append(@, e)]
  IN IF ~IsGroup(jid) THEN Finally(q1, e)
     ELSE IF CacheHit(jid)
     THEN [q1 EXCEPT !.workers[e] = [pc |-> "named",
                                     name |-> groupMetadataCache[jid].name]]
     ELSE [q1 EXCEPT !.workers[e] = [pc |-> "lookup", name |-> <<>>]]

\* a drain loop that tests activeWorkers <= concurrency (sensitivity of C14)
RECURSIVE ProcessQueueLoopOffByOne(_)
ProcessQueueLoopOffByOne(q) ==
  IF Len(q.queue) > 0 /\ q.activeWorkers <= concurrency
  THEN ProcessQueueLoopOffByOne(StartWorker([q EXCEPT !.queue = Tail(@)], Head(q.queue)))
  ELSE q

\* a drain loop that takes the newest event, queue.pop() (sensitivity of C18)
RECURSIVE ProcessQueueLoopPop(_)
ProcessQueueLoopPop(q) ==
  IF Len(q.queue) > 0 /\ q.activeWorkers < concurrency
  THEN ProcessQueueLoopPop(
         StartWorker([q EXCEPT !.queue = SubSeq(@, 1, Len(@) - 1)], q.queue[Len(q.queue)]))
  ELSE q

\* the while loop of processQueue, lines 34-37
RECURSIVE ProcessQueueLoop(_)
ProcessQueueLoop(q) ==
  IF Len(q.queue) > 0 /\ q.activeWorkers < concurrency
  THEN ProcessQueueLoop(StartWorker([q EXCEPT !.queue = Tail(@)], Head(q.queue)))
  ELSE q

\* processQueue, lines 27-40; it has no await, so processing is false again at its end
processQueue(q) ==
  IF processing \/ Len(q.queue) = 0 \/ q.activeWorkers >= concurrency THEN q
  ELSE ProcessQueueLoop(q)

\* the queue state as a record, and the state after a synchronous run that ends in q
QueueState ==
  [queue |-> queue, activeWorkers |-> activeWorkers, immediates |-> immediates,
   events |-> events, workers |-> workers, started |-> started]

(* ---------------------------- actions ---------------------------------- *)
\* the MessageQueue after construction (part_000 lines 4-13)
QueueInit(limits) ==
  /\ concurrency \in limits
  /\ queue = <<>>
  /\ processing = FALSE
  /\ activeWorkers = 0
  /\ groupMetadataCache = EmptyMap
  /\ immediates = 0
  /\ events = <<>>
  /\ workers = <<>>
  /\ started = <<>>
  /\ storeCalls = <<>>

\* the store after construction, for configured capacities and rate-limit switches
StoreInit(caps, switches) ==
  /\ config \in [maxMessagesPerGroup : caps, respectRateLimit : switches]
  /\ now = minInterval
  /\ messages = EmptyMap
  /\ messageCount = EmptyMap
  /\ rateLimiter = EmptyMap
  /\ arrayId = EmptyMap
  /\ nextArray = 0
  /\ storeFile = [exists |-> FALSE, messages |-> EmptyMap]
  /\ ledgerFile = [exists |-> FALSE, messages |-> <<>>]
  /\ delivered = [i \in MsgIds |-> 0]
  /\ accepted = [g \in Groups |-> <<>>]
  /\ nCalls = 0
  /\ nClears = 0
  /\ task = [t \in Tasks |-> IdleTask]
  /\ acceptedAt = [g \in Groups |-> <<>>]
  /\ rejects = [filters |-> 0, rate |-> 0]
  /\ failedBatch = <<>>

\* the state after construction, for a configured capacity
InitCap(caps) == StoreInit(caps, {FALSE}) /\ QueueInit({defaultConcurrency})

Init == InitCap(1..MaxCap)

\* fs.readFile may reject; it rejects when the file does not exist
ReadOutcomes(file) == IF file.exists THEN {TRUE, FALSE} ELSE {FALSE}

\* addMessage, lines 31-48: filters, rate limit, then the human-like delay
addMessage(t, g, ev) ==
  /\ task[t].pc = "idle"
  /\ nCalls' = nCalls + 1
  /\ LET rl == checkRateLimit(g)
     IN IF ~shouldStoreMessage(ev)
        THEN /\ rejects' = [rejects EXCEPT !.filters = @ + 1]
             /\ UNCHANGED <<rateLimiter, task, acceptedAt>>
        ELSE /\ rateLimiter' = rl.rl
             /\ IF ~rl.ok
                THEN /\ rejects' = [rejects EXCEPT !.rate = @ + 1]
                     /\ UNCHANGED <<task, acceptedAt>>
                ELSE /\ task' = [task EXCEPT ![t] =
                                   [IdleTask EXCEPT !.pc = "delay", !.g = g, !.id = ev.id,
                                                    !.fromMe = ev.fromMe,
                                                    !.seq = nCalls + 1]]
                     /\ acceptedAt' = [acceptedAt EXCEPT ![g] = Append(@, now)]
                     /\ UNCHANGED rejects
  /\ UNCHANGED <<queueVars, config, now, messages, messageCount, arrayId, nextArray,
                 storeFile, ledgerFile, delivered, accepted, nClears, failedBatch>>

\* addMessage, lines 50-68: group initialisation, capacity check, call of processMessage
addMessageStore(t) ==
  /\ task[t].pc = "delay"
  /\ LET g == task[t].g
         fresh == g \notin DOMAIN messages
         msgs0 == IF fresh THEN <<>> ELSE messages[g]
         cnt0 == IF fresh THEN 0 ELSE messageCount[g]
         cc == CapacityCheck(msgs0, cnt0)
         aid == IF fresh THEN nextArray + 1 ELSE arrayId[g]
     IN /\ messages' = MapSet(messages, g, cc.msgs)
        /\ messageCount' = MapSet(messageCount, g, cc.cnt)
        /\ arrayId' = MapSet(arrayId, g, aid)
        /\ nextArray' = IF fresh THEN nextArray + 1 ELSE nextArray
        /\ task' = [task EXCEPT ![t].pc = "process", ![t].ref = aid]
  /\ UNCHANGED <<queueVars, rateHistory, config, now, rateLimiter, storeFile, ledgerFile, delivered,
                 accepted, nCalls, nClears>>

\* addMessage, lines 68-75: push on the array fetched at line 56, then saveToFile
\* up to its await (the snapshot is stringified when fs.writeFile is called)
addMessagePush(t) ==
  /\ task[t].pc = "process"
  /\ LET g == task[t].g
         held == g \in DOMAIN messages /\ arrayId[g] = task[t].ref
         after == IF held
                  THEN MapSet(messages, g,
                              Append(messages[g], processMessage(task[t].id, task[t].seq, task[t].fromMe)))
                  ELSE messages
     IN /\ messages' = after
        /\ task' = [task EXCEPT ![t].pc = "saving", ![t].wbuf = after]
  /\ accepted' = [accepted EXCEPT ![task[t].g] =
                     Append(@, processMessage(task[t].id, task[t].seq, task[t].fromMe))]
  /\ UNCHANGED <<queueVars, rateHistory, config, now, messageCount, rateLimiter, arrayId, nextArray, storeFile,
                 ledgerFile, delivered, nCalls, nClears>>

\* an addMessage that returns after its persist without calling triggerCuration
\* (sensitivity of C33)
saveToFileDoneNoCuration(t) ==
  /\ task[t].pc = "saving"
  /\ storeFile' = [exists |-> TRUE, messages |-> task[t].wbuf]
  /\ task' = [task EXCEPT ![t] = IdleTask]
  /\ UNCHANGED <<queueVars, rateHistory, config, now, messages, messageCount, rateLimiter, arrayId, nextArray,
                 ledgerFile, delivered, accepted, nCalls, nClears>>

\* saveToFile resolves (line 402), addMessage goes on to triggerCuration (line 79),
\* which starts the read of hasUnprocessedMessages
saveToFileDone(t) ==
  /\ task[t].pc = "saving"
  /\ storeFile' = [exists |-> TRUE, messages |-> task[t].wbuf]
  /\ task' = [task EXCEPT ![t] = [IdleTask EXCEPT !.pc = "check"]]
  /\ UNCHANGED <<queueVars, rateHistory, config, now, messages, messageCount, rateLimiter, arrayId, nextArray,
                 ledgerFile, delivered, accepted, nCalls, nClears>>

\* a catch block that takes the message back out of the ledger (sensitivity of C21)
saveToFileFailRollback(t) ==
  /\ task[t].pc = "saving"
  /\ task' = [task EXCEPT ![t] = IdleTask]
  /\ messages' = [g \in DOMAIN messages |->
                    IF g = task[t].g /\ messages[g] # <<>>
                    THEN SubSeq(messages[g], 1, Len(messages[g]) - 1) ELSE messages[g]]
  /\ UNCHANGED <<queueVars, rateHistory, config, now, messageCount, rateLimiter, arrayId, nextArray,
                 storeFile, ledgerFile, delivered, accepted, nCalls, nClears>>

\* saveToFile rejects (lines 404-407); addMessage catches it (lines 80-83)
saveToFileFail(t) ==
  /\ task[t].pc = "saving"
  /\ task' = [task EXCEPT ![t] = AfterThrow("saveToFile")]
  /\ UNCHANGED <<queueVars, rateHistory, config, now, messages, messageCount, rateLimiter, arrayId, nextArray,
                 storeFile, ledgerFile, delivered, accepted, nCalls, nClears>>

\* triggerCuration called from outside addMessage (the manual trigger)
triggerCuration(t) ==
  /\ task[t].pc = "idle"
  /\ nCalls' = nCalls + 1
  /\ task' = [task EXCEPT ![t] = [IdleTask EXCEPT !.pc = "check"]]
  /\ UNCHANGED <<queueVars, rateHistory, config, now, messages, messageCount, rateLimiter, arrayId, nextArray,
                 storeFile, ledgerFile, delivered, accepted, nClears>>

\* hasUnprocessedMessages resolves (lines 428-447); triggerCuration lines 452-460
hasUnprocessedMessages(t) ==
  /\ task[t].pc = "check"
  /\ \E readOk \in ReadOutcomes(storeFile) :
       LET hasUnprocessed == IF readOk THEN AnyUnprocessed(storeFile.messages) ELSE TRUE
       IN /\ task' = [task EXCEPT ![t] =
                        IF hasUnprocessed THEN [IdleTask EXCEPT !.pc = "batch"] ELSE IdleTask]
          /\ failedBatch' = IF hasUnprocessed THEN failedBatch ELSE <<>>
  /\ UNCHANGED <<queueVars, acceptedAt, rejects, config, now, messages, messageCount, rateLimiter, arrayId, nextArray,
                 storeFile, ledgerFile, delivered, accepted, nCalls, nClears>>

\* processScrapedMessages, lines 441-469: read the snapshot, format the batch, call curate
processScrapedMessages(t) ==
  /\ task[t].pc = "batch"
  /\ \E readOk \in ReadOutcomes(storeFile) :
       LET batch == formatMessagesForCuration(storeFile.messages)
       IN task' = [task EXCEPT ![t] =
                     IF ~readOk THEN AfterThrow("snapshotRead")
                     ELSE IF batch = <<>> THEN IdleTask
                     ELSE [IdleTask EXCEPT !.pc = "rank", !.batch = batch]]
  /\ failedBatch' = <<>>
  /\ UNCHANGED <<queueVars, acceptedAt, rejects, config, now, messages, messageCount, rateLimiter, arrayId, nextArray,
                 storeFile, ledgerFile, delivered, accepted, nCalls, nClears>>

\* curate resolves (lines 545-578) and saveCuratedMessages starts its read (line 591);
\* a failed call or an unparsable answer is caught and gives [] (line 577)
curate(t, outcome) ==
  /\ task[t].pc = "rank"
  /\ LET items == IF outcome.failed THEN <<>> ELSE outcome.items
         status == RankStatus(outcome, task[t].batch)
     IN task' = [task EXCEPT ![t].pc = "merge", ![t].status = status,
                             ![t].newRel = newRelevantMessages(items, task[t].batch)]
  /\ UNCHANGED <<queueVars, rateHistory, config, now, messages, messageCount, rateLimiter, arrayId, nextArray,
                 storeFile, ledgerFile, delivered, accepted, nCalls, nClears>>

\* a merge that hands the new records to the dispatcher before it writes the ledger
\* (sensitivity of C31)
saveCuratedMessagesReadThenSend(t) ==
  /\ task[t].pc = "merge"
  /\ \E readOk \in ReadOutcomes(ledgerFile) :
       LET existing == IF readOk THEN ledgerFile.messages ELSE <<>>
           unique == uniqueNewMessages(task[t].newRel, existing)
       IN task' = [task EXCEPT ![t].pc = IF unique # <<>> THEN "notify" ELSE "lwrite",
                               ![t].existing = existing,
                               ![t].unique = unique,
                               ![t].lbuf = allMessages(existing, unique)]
  /\ UNCHANGED <<queueVars, rateHistory, config, now, messages, messageCount, rateLimiter, arrayId, nextArray,
                 storeFile, ledgerFile, delivered, accepted, nCalls, nClears>>

\* saveCuratedMessages, lines 590-643: the ledger read resolves, the merge is computed
\* and the write is started
saveCuratedMessagesRead(t) ==
  /\ task[t].pc = "merge"
  /\ \E readOk \in ReadOutcomes(ledgerFile) :
       LET existing == IF readOk THEN ledgerFile.messages ELSE <<>>
           unique == uniqueNewMessages(task[t].newRel, existing)
       IN task' = [task EXCEPT ![t].pc = "lwrite", ![t].existing = existing,
                               ![t].unique = unique,
                               ![t].lbuf = allMessages(existing, unique)]
  /\ UNCHANGED <<queueVars, rateHistory, config, now, messages, messageCount, rateLimiter, arrayId, nextArray,
                 storeFile, ledgerFile, delivered, accepted, nCalls, nClears>>

\* markMessagesAsProcessed up to its await (lines 410-424), reached from
\* triggerCuration line 464 when processScrapedMessages has returned
markMessagesAsProcessed(t) ==
  LET marked == MarkAll(messages, BatchIds(task[t].batch))
  IN /\ messages' = marked
     /\ task' = [task EXCEPT ![t] =
                   [IdleTask EXCEPT !.pc = "marksave", !.batch = task[t].batch,
                                    !.status = task[t].status, !.wbuf = marked]]

\* the ledger write resolves (line 643); lines 646-659
saveCuratedMessagesWrite(t) ==
  /\ task[t].pc = "lwrite"
  /\ ledgerFile' = [exists |-> TRUE, messages |-> task[t].lbuf]
  /\ IF task[t].unique # <<>>
     THEN /\ task' = [task EXCEPT ![t].pc = "notify", ![t].newRel = <<>>,
                                  ![t].existing = <<>>, ![t].lbuf = <<>>]
          /\ UNCHANGED messages
     ELSE markMessagesAsProcessed(t)
  /\ UNCHANGED <<queueVars, rateHistory, config, now, messageCount, rateLimiter, arrayId, nextArray,
                 storeFile, delivered, accepted, nCalls, nClears>>

\* a rejected ledger write after which the batch is marked all the same (sensitivity
\* of C36)
saveCuratedMessagesWriteFailMarks(t) ==
  /\ task[t].pc = "lwrite"
  /\ markMessagesAsProcessed(t)
  /\ failedBatch' = task[t].batch
  /\ UNCHANGED <<queueVars, acceptedAt, rejects, config, now, messageCount, rateLimiter, arrayId, nextArray,
                 storeFile, ledgerFile, delivered, accepted, nCalls, nClears>>

\* the ledger write rejects: lines 660-663, 481-485, and triggerCuration's catch (466)
saveCuratedMessagesWriteFail(t) ==
  /\ task[t].pc = "lwrite"
  /\ task' = [task EXCEPT ![t] = AfterThrow("ledgerWrite")]
  /\ failedBatch' = task[t].batch
  /\ UNCHANGED <<queueVars, acceptedAt, rejects, config, now, messages, messageCount, rateLimiter, arrayId, nextArray,
                 storeFile, ledgerFile, delivered, accepted, nCalls, nClears>>

\* a loop that ends at the first failed send (sensitivity of C34)
sendNotificationsStopOnFailure(t, ok) ==
  /\ task[t].pc = "notify"
  /\ LET i == Len(task[t].results) + 1
         id == task[t].unique[i].id
         results == Append(task[t].results, [id |-> id, ok |-> ok])
     IN /\ delivered' = IF ok THEN [delivered EXCEPT ![id] = @ + 1] ELSE delivered
        /\ IF ok /\ i < Len(task[t].unique)
           THEN /\ task' = [task EXCEPT ![t].results = results]
                /\ UNCHANGED messages
           ELSE IF SuccessIds(results) # {}
           THEN /\ task' = [task EXCEPT ![t].pc = "nread", ![t].results = results]
                /\ UNCHANGED messages
           ELSE markMessagesAsProcessed(t)
  /\ UNCHANGED <<queueVars, rateHistory, config, now, messageCount, rateLimiter, arrayId, nextArray,
                 storeFile, ledgerFile, accepted, nCalls, nClears>>

\* sendNotifications (lines 71-85 of NotificationService): the send of the next record
\* resolves or rejects; the pacing wait follows; after the last record, lines 652-655
sendNotifications(t, ok) ==
  /\ task[t].pc = "notify"
  /\ LET i == Len(task[t].results) + 1
         id == task[t].unique[i].id
         results == Append(task[t].results, [id |-> id, ok |-> ok])
     IN /\ delivered' = IF ok THEN [delivered EXCEPT ![id] = @ + 1] ELSE delivered
        /\ IF i < Len(task[t].unique)
           THEN /\ task' = [task EXCEPT ![t].results = results]
                /\ UNCHANGED messages
           ELSE IF SuccessIds(results) # {}
           THEN /\ task' = [task EXCEPT ![t].pc = "nread", ![t].results = results]
                /\ UNCHANGED messages
           ELSE markMessagesAsProcessed(t)
  /\ UNCHANGED <<queueVars, rateHistory, config, now, messageCount, rateLimiter, arrayId, nextArray,
                 storeFile, ledgerFile, accepted, nCalls, nClears>>

\* updateNotificationStatus, lines 669-684: the read resolves, the write is started;
\* a rejected read is caught (line 687) and the cycle goes on to the marking
updateNotificationStatusRead(t) ==
  /\ task[t].pc = "nread"
  /\ \E readOk \in ReadOutcomes(ledgerFile) :
       IF readOk
       THEN /\ task' = [task EXCEPT ![t].pc = "nwrite",
                          ![t].lbuf = SetNotified(ledgerFile.messages,
                                                  SuccessIds(task[t].results))]
            /\ UNCHANGED messages
       ELSE markMessagesAsProcessed(t)
  /\ UNCHANGED <<queueVars, rateHistory, config, now, messageCount, rateLimiter, arrayId, nextArray,
                 storeFile, ledgerFile, delivered, accepted, nCalls, nClears>>

\* updateNotificationStatus: the write resolves or rejects (caught, line 687); then
\* saveCuratedMessages and processScrapedMessages return and the batch is marked
updateNotificationStatusWrite(t, ok) ==
  /\ task[t].pc = "nwrite"
  /\ ledgerFile' = IF ok THEN [exists |-> TRUE, messages |-> task[t].lbuf] ELSE ledgerFile
  /\ markMessagesAsProcessed(t)
  /\ UNCHANGED <<queueVars, rateHistory, config, now, messageCount, rateLimiter, arrayId, nextArray,
                 storeFile, delivered, accepted, nCalls, nClears>>

\* the saveToFile of markMessagesAsProcessed resolves (line 424)
markSaveDone(t) ==
  /\ task[t].pc = "marksave"
  /\ storeFile' = [exists |-> TRUE, messages |-> task[t].wbuf]
  /\ task' = [task EXCEPT ![t] = IdleTask]
  /\ UNCHANGED <<queueVars, rateHistory, config, now, messages, messageCount, rateLimiter, arrayId, nextArray,
                 ledgerFile, delivered, accepted, nCalls, nClears>>

\* the saveToFile of markMessagesAsProcessed rejects; triggerCuration catches it
markSaveFail(t) ==
  /\ task[t].pc = "marksave"
  /\ task' = [task EXCEPT ![t] = AfterThrow("markSave")]
  /\ UNCHANGED <<queueVars, rateHistory, config, now, messages, messageCount, rateLimiter, arrayId, nextArray,
                 storeFile, ledgerFile, delivered, accepted, nCalls, nClears>>

\* a clearGroup that clears the whole rate limiter (sensitivity of C35)
clearGroupAllStamps(g) ==
  /\ nClears < MaxClears
  /\ nClears' = nClears + 1
  /\ messages' = MapDelete(messages, g)
  /\ messageCount' = MapDelete(messageCount, g)
  /\ rateLimiter' = EmptyMap
  /\ arrayId' = MapDelete(arrayId, g)
  /\ UNCHANGED <<queueVars, rateHistory, config, now, nextArray, storeFile, ledgerFile, delivered,
                 accepted, nCalls, task>>

\* clearGroup, lines 359-363
clearGroup(g) ==
  /\ nClears < MaxClears
  /\ nClears' = nClears + 1
  /\ messages' = MapDelete(messages, g)
  /\ messageCount' = MapDelete(messageCount, g)
  /\ rateLimiter' = MapDelete(rateLimiter, g)
  /\ arrayId' = MapDelete(arrayId, g)
  /\ UNCHANGED <<queueVars, rateHistory, config, now, nextArray, storeFile, ledgerFile, delivered,
                 accepted, nCalls, task>>

\* clearAll, lines 368-372
clearAll ==
  /\ nClears < MaxClears
  /\ nClears' = nClears + 1
  /\ messages' = EmptyMap
  /\ messageCount' = EmptyMap
  /\ rateLimiter' = EmptyMap
  /\ arrayId' = EmptyMap
  /\ UNCHANGED <<queueVars, rateHistory, config, now, nextArray, storeFile, ledgerFile, delivered,
                 accepted, nCalls, task>>

\* addMessages, lines 15-25: the eligible messages of the batch are pushed, then
\* processQueue runs (nothing is awaited)
addMessages(batch) ==
  /\ Len(events) + Len(batch) <= MaxEvents
  /\ LET n == Len(events)
         pushed == SeqFilter([i \in 1..Len(batch) |-> IF Eligible(batch[i]) THEN n + i ELSE 0],
                             (n + 1)..(n + Len(batch)))
         fresh == [i \in 1..Len(batch) |->
                     [pc |-> IF Eligible(batch[i]) THEN "backlog" ELSE "dropped",
                      name |-> <<>>]]
         q == processQueue([QueueState EXCEPT !.queue = @ \o pushed,
                                              !.events = @ \o batch,
                                              !.workers = @ \o fresh])
     IN /\ queue' = q.queue
        /\ activeWorkers' = q.activeWorkers
        /\ immediates' = q.immediates
        /\ events' = q.events
        /\ workers' = q.workers
        /\ started' = q.started
        /\ storeCalls' = storeCalls \o [i \in 1..Len(batch) |-> 0]
  /\ UNCHANGED <<storeVars, now, concurrency, processing, groupMetadataCache>>

\* a callback of setImmediate(() => this.processQueue()), line 63, runs
immediateProcessQueue ==
  /\ immediates > 0
  /\ LET q == processQueue([QueueState EXCEPT !.immediates = @ - 1])
     IN /\ queue' = q.queue
        /\ activeWorkers' = q.activeWorkers
        /\ immediates' = q.immediates
        /\ workers' = q.workers
        /\ started' = q.started
  /\ UNCHANGED <<storeVars, now, concurrency, processing, groupMetadataCache, events,
                 storeCalls>>

\* a catch block that stores the placeholder in the cache (sensitivity of C26)
getCachedGroupMetadataCachesFailure(e, ok) ==
  /\ e \in 1..Len(workers)
  /\ workers[e].pc = "lookup"
  /\ LET jid == events[e].jid
         name == IF ok THEN SubjectOf(jid) ELSE UnknownGroup
     IN /\ groupMetadataCache' =
             MapSet(groupMetadataCache, jid, [name |-> name, timestamp |-> now])
        /\ workers' = [workers EXCEPT ![e] = [pc |-> "named", name |-> name]]
  /\ UNCHANGED <<storeVars, now, concurrency, queue, processing, activeWorkers,
                 immediates, events, started, storeCalls>>

\* getCachedGroupMetadata, lines 75-88: sock.groupMetadata resolves or rejects
getCachedGroupMetadata(e, ok) ==
  /\ e \in 1..Len(workers)
  /\ workers[e].pc = "lookup"
  /\ LET jid == events[e].jid
     IN IF ok
        THEN /\ groupMetadataCache' =
                  MapSet(groupMetadataCache, jid,
                         [name |-> SubjectOf(jid), timestamp |-> now])
             /\ workers' = [workers EXCEPT ![e] = [pc |-> "named", name |-> SubjectOf(jid)]]
        ELSE /\ UNCHANGED groupMetadataCache
             /\ workers' = [workers EXCEPT ![e] = [pc |-> "named", name |-> UnknownGroup]]
  /\ UNCHANGED <<storeVars, now, concurrency, queue, processing, activeWorkers,
                 immediates, events, started, storeCalls>>

\* processMessage, lines 54-65: the worker goes on after the name is resolved, calls
\* the store, and whatever is thrown is caught; then the finally block
processMessageStore(e) ==
  /\ e \in 1..Len(workers)
  /\ workers[e].pc = "named"
  /\ LET q == Finally(QueueState, e)
         escapes == Invoke("addMessageFast") = "TypeError"
                      /\ Unwind(TryBlocks("storeCall")) = "thrown"
     IN /\ activeWorkers' = q.activeWorkers
        /\ immediates' = q.immediates
        /\ workers' = IF escapes THEN [q.workers EXCEPT ![e].pc = "thrown"] ELSE q.workers
  /\ storeCalls' = IF Invoke("addMessageFast") = "called"
                   THEN [storeCalls EXCEPT ![e] = @ + 1] ELSE storeCalls
  /\ UNCHANGED <<storeVars, now, concurrency, queue, processing, groupMetadataCache,
                 events, started>>

\* Date.now() advances by d
Tick(d, limit) ==
  /\ now + d <= limit
  /\ now' = now + d
  /\ UNCHANGED <<storeVars, queueVars>>


(* ---------------------------- specifications --------------------------- *)
\* the invocation slots are interchangeable: a new call takes the lowest free one
LowestIdle(t) == \A u \in Tasks : task[u].pc = "idle" => t <= u

\* group and message ids are interchangeable: the n-th call names at most the n-th
\* group and the n-th id (GroupOrder is then the key order of the snapshot)
Min(a, b) == IF a < b THEN a ELSE b
GroupChoices == {GroupOrder[i] : i \in 1..Min(nCalls + 1, Len(GroupOrder))}
EventChoices ==
  {GoodEvent(IdOrder[i]) : i \in 1..Min(nCalls + 1, Len(IdOrder))} \cup BadEvents

\* a continuation of an invocation in flight; n bounds the ranking answers
Continue(t, n) ==
  \/ addMessageStore(t)
  \/ addMessagePush(t)
  \/ saveToFileDone(t)
  \/ saveToFileFail(t)
  \/ hasUnprocessedMessages(t)
  \/ processScrapedMessages(t)
  \/ \E outcome \in RankOutcomes(task[t].batch, n) : curate(t, outcome)
  \/ saveCuratedMessagesRead(t)
  \/ saveCuratedMessagesWrite(t)
  \/ saveCuratedMessagesWriteFail(t)
  \/ \E ok \in BOOLEAN : sendNotifications(t, ok)
  \/ updateNotificationStatusRead(t)
  \/ \E ok \in BOOLEAN : updateNotificationStatusWrite(t, ok)
  \/ markSaveDone(t)
  \/ markSaveFail(t)

\* invocations run one after another: a call starts when no other is in flight
AllIdle == \A t \in Tasks : task[t].pc = "idle"

SeqNext ==
  \/ \E g \in GroupChoices, ev \in EventChoices :
       AllIdle /\ nCalls < MaxCalls /\ addMessage(1, g, ev)
  \/ AllIdle /\ nCalls < MaxCalls /\ triggerCuration(1)
  \/ Continue(1, MaxItems)

SpecSeq == Init /\ [][SeqNext]_vars

\* invocations overlap freely
Next ==
  \/ \E t \in Tasks, g \in GroupChoices, ev \in EventChoices :
       LowestIdle(t) /\ nCalls < MaxOverlapCalls /\ addMessage(t, g, ev)
  \/ \E t \in Tasks : LowestIdle(t) /\ nCalls < MaxOverlapCalls /\ triggerCuration(t)
  \/ \E t \in Tasks : Continue(t, OverlapItems)

Spec == InitCap({OverlapCap}) /\ [][Next]_vars

\* a continuation of an invocation while the ranking capability cannot be reached
StoreContinue(t) ==
  \/ addMessageStore(t)
  \/ addMessagePush(t)
  \/ saveToFileDone(t)
  \/ saveToFileFail(t)
  \/ hasUnprocessedMessages(t)
  \/ processScrapedMessages(t)
  \/ curate(t, CallFailed)
  \/ saveCuratedMessagesRead(t)
  \/ saveCuratedMessagesWrite(t)
  \/ saveCuratedMessagesWriteFail(t)
  \/ markSaveDone(t)
  \/ markSaveFail(t)

\* overlapping invocations and clear commands, the ranking capability unreachable
StoreNext ==
  \/ \E t \in Tasks, g \in GroupChoices, ev \in EventChoices :
       LowestIdle(t) /\ nCalls < MaxOverlapCalls /\ addMessage(t, g, ev)
  \/ \E t \in Tasks : LowestIdle(t) /\ nCalls < MaxOverlapCalls /\ triggerCuration(t)
  \/ \E t \in Tasks : StoreContinue(t)
  \/ \E g \in Groups : clearGroup(g)
  \/ clearAll

SpecStore == InitCap({OverlapCap}) /\ [][StoreNext]_vars

\* the steps the event loop owes: a started worker goes on, a scheduled callback runs
QueueProgress ==
  \/ \E e \in 1..MaxEvents, ok \in BOOLEAN : getCachedGroupMetadata(e, ok)
  \/ \E e \in 1..MaxEvents : processMessageStore(e)
  \/ immediateProcessQueue

\* the MessageQueue fed with batches of upserted messages
QueueNext ==
  \/ \E batch \in SeqsUpTo(EventKinds, MaxBatch) : batch # <<>> /\ addMessages(batch)
  \/ \E e \in 1..MaxEvents, ok \in BOOLEAN : getCachedGroupMetadata(e, ok)
  \/ \E e \in 1..MaxEvents : processMessageStore(e)
  \/ immediateProcessQueue
  \/ Tick(cacheExpiry \div 2, minInterval + MaxQueueTicks * (cacheExpiry \div 2))

\* a store nothing reaches, and a queue of a configured concurrency
QueueSpecInit == StoreInit({OverlapCap}, {FALSE}) /\ QueueInit(1..MaxConcurrency)

SpecQueue ==
  /\ QueueSpecInit
  /\ [][QueueNext]_vars
  /\ WF_vars(QueueProgress)

\* overlapping invocations with rate limiting on, the clock advancing in between; the
\* ranking capability cannot be reached
RateNext ==
  \/ \E t \in Tasks, g \in GroupChoices, ev \in EventChoices :
       LowestIdle(t) /\ nCalls < MaxOverlapCalls /\ addMessage(t, g, ev)
  \/ \E t \in Tasks : StoreContinue(t)
  \/ \E d \in {1000, 5000} : Tick(d, minInterval + MaxRateSpan)

RateInit == StoreInit({OverlapCap}, {TRUE}) /\ QueueInit({defaultConcurrency})

SpecRate == RateInit /\ [][RateNext]_vars

\* invocations one after another while the ranking capability cannot be reached
SeqStoreNext ==
  \/ \E g \in GroupChoices, ev \in EventChoices :
       AllIdle /\ nCalls < MaxCalls /\ addMessage(1, g, ev)
  \/ AllIdle /\ nCalls < MaxCalls /\ triggerCuration(1)
  \/ StoreContinue(1)

SpecSeqStore == Init /\ [][SeqStoreNext]_vars

\* invocations one after another, the clock advancing in between
MarkNext ==
  \/ SeqStoreNext
  \/ Tick(1000, minInterval + MaxMarkTicks * 1000)

SpecMark == Init /\ [][MarkNext]_vars

\* the MessageQueue fed with batches while the store is called directly, its
\* invocations one after another
IntakeNext ==
  \/ \E batch \in SeqsUpTo(EventKinds, MaxBatch) :
       batch # <<>> /\ Len(events) + Len(batch) <= MaxIntakeEvents /\ addMessages(batch)
  \/ QueueProgress
  \/ \E g \in GroupChoices, ev \in EventChoices :
       AllIdle /\ nCalls < MaxIntakeCalls /\ addMessage(1, g, ev)
  \/ Continue(1, OverlapItems)

IntakeInit == InitCap({OverlapCap})

SpecIntake == IntakeInit /\ [][IntakeNext]_vars

\* a continuation in which no ranking call, no write and no read of an existing file
\* fails
LiveContinue(t) ==
  \/ addMessageStore(t)
  \/ addMessagePush(t)
  \/ saveToFileDone(t)
  \/ /\ hasUnprocessedMessages(t)
     /\ storeFile.exists /\ task'[t].pc = "batch" => AnyUnprocessed(storeFile.messages)
  \/ /\ processScrapedMessages(t)
     /\ storeFile.exists /\ formatMessagesForCuration(storeFile.messages) # <<>>
          => task'[t].pc = "rank"
  \/ \E outcome \in RankOutcomes(task[t].batch, OverlapItems) \ {CallFailed} : curate(t, outcome)
  \/ /\ saveCuratedMessagesRead(t)
     /\ ledgerFile.exists => task'[t].existing = ledgerFile.messages
  \/ saveCuratedMessagesWrite(t)
  \/ \E ok \in BOOLEAN : sendNotifications(t, ok)
  \/ /\ updateNotificationStatusRead(t)
     /\ ledgerFile.exists => task'[t].pc = "nwrite"
  \/ updateNotificationStatusWrite(t, TRUE)
  \/ markSaveDone(t)

\* overlapping invocations whose awaited operations all succeed
LiveNext ==
  \/ \E t \in Tasks, g \in GroupChoices, ev \in EventChoices :
       LowestIdle(t) /\ nCalls < MaxOverlapCalls /\ addMessage(t, g, ev)
  \/ \E t \in Tasks : LowestIdle(t) /\ nCalls < MaxOverlapCalls /\ triggerCuration(t)
  \/ \E t \in Tasks : LiveContinue(t)

\* every pending promise of an invocation is settled in the end (the event loop runs
\* each continuation that is ready); no new call has to arrive
SpecLive ==
  InitCap({OverlapCap}) /\ [][LiveNext]_vars /\ \A t \in Tasks : WF_vars(LiveContinue(t))

\* overlapping invocations with rate limiting on, interleaved with clear commands; the
\* ranking capability cannot be reached
ClearNext ==
  \/ \E t \in Tasks, g \in GroupChoices, ev \in EventChoices :
       LowestIdle(t) /\ nCalls < MaxOverlapCalls /\ addMessage(t, g, ev)
  \/ \E t \in Tasks : StoreContinue(t)
  \/ \E g \in Groups : clearGroup(g)
  \/ clearAll

SpecClear == RateInit /\ [][ClearNext]_vars

(* ---------------------------- claims ----------------------------------- *)
\* an in-memory message is a candidate of the batch
IsCandidate(m, g, batch) ==
  \E k \in 1..Len(batch) :
    batch[k].id = m.id /\ batch[k].seq = m.seq /\ batch[k].groupId = g

\* every in-memory message that carries the id of a candidate is processed
BatchMarked(mem, batch) ==
  \A g \in DOMAIN mem : \A i \in 1..Len(mem[g]) :
    mem[g][i].id \in BatchIds(batch) => mem[g][i].processed

\* C1: of two curation cycles in flight, no stored message is in the batch both have
\* submitted to the ranking capability.
C1_NoDoubleSubmission ==
  \A t, u \in Tasks :
    (t # u /\ task[t].pc = "rank" /\ task[u].pc = "rank")
      => SeqToSet(task[t].batch) \cap SeqToSet(task[u].batch) = {}

\* C2: once the ranking call of a cycle has failed, no step of the cycle changes the
\* processed flags, the records of the relevance ledger, the deliveries or the snapshot.
C2_FailedRankingNoChange ==
  [][\A t \in Tasks :
       task[t].status = "failed"
         => /\ messages' = messages
            /\ ledgerFile'.messages = ledgerFile.messages
            /\ delivered' = delivered
            /\ storeFile' = storeFile]_vars

\* C3: no two records of the persisted relevance ledger have the same id.
C3_LedgerIdsUnique ==
  \A i, j \in 1..Len(ledgerFile.messages) :
    ledgerFile.messages[i].id = ledgerFile.messages[j].id => i = j

\* C4: a curated message id is sent to the destination at most once.
C4_DeliveredAtMostOnce == \A i \in MsgIds : delivered[i] <= 1

\* C5: a cycle that starts after a stored message got processed=true does not have
\* that message in its batch (invocations run one after another, so every flag set in
\* memory while a cycle waits for its ranking was set before the cycle started).
C5_ProcessedNeverBatched ==
  \A t \in Tasks :
    task[t].pc = "rank"
      => \A g \in DOMAIN messages : \A i \in 1..Len(messages[g]) :
           messages[g][i].processed => ~IsCandidate(messages[g][i], g, task[t].batch)

\* C6: every source ledger holds at most maxMessagesPerGroup messages.
C6_LedgerWithinCapacity ==
  \A g \in DOMAIN messages : Len(messages[g]) <= config.maxMessagesPerGroup

\* the last n elements of a sequence
LastN(s, n) == IF Len(s) <= n THEN s ELSE SubSeq(s, Len(s) - n + 1, Len(s))
\* a stored message without its processed flag
Identity(msgs) == [i \in 1..Len(msgs) |-> [id |-> msgs[i].id, seq |-> msgs[i].seq]]

\* C7: when addMessage calls run one after another, outside the window between the
\* capacity check and the push of a call the ledger of a source holds exactly the
\* last min(N, C) of the N messages accepted for it, in acceptance order.
C7_LedgerIsLastAccepted ==
  (\A t \in Tasks : task[t].pc # "process")
    => \A g \in Groups :
         LET kept == LastN(accepted[g], config.maxMessagesPerGroup)
         IN IF g \in DOMAIN messages
            THEN /\ Identity(messages[g]) = Identity(kept)
                 /\ Len(messages[g]) = Min(Len(accepted[g]), config.maxMessagesPerGroup)
            ELSE accepted[g] = <<>>

\* C7 witness: capacity 2, three messages accepted for g1, the first one evicted
C7_Witness ==
  /\ config.maxMessagesPerGroup = 2
  /\ AllIdle
  /\ Len(accepted["g1"]) = 3
  /\ "g1" \in DOMAIN messages
  /\ Identity(messages["g1"]) = Identity(Tail(accepted["g1"]))

\* C8: once the ranking answer of a cycle has omitted a candidate id, no step of the
\* cycle sets a processed flag.
C8_OmissionMarksNothing ==
  [][\A t \in Tasks : task[t].status = "omits" => messages' = messages]_vars

AddedCount(newRel, existing) ==
  Cardinality({i \in 1..Len(newRel) : newRel[i].id \notin LedgerIds(existing)})

IsSortedByRelevance(recs) ==
  \A i, j \in 1..Len(recs) : i < j => recs[i].relevance >= recs[j].relevance

\* C10: the persisted relevance ledger, and the ledger every merge is about to write,
\* is ordered by non-increasing relevance.
C10_LedgerSorted ==
  /\ IsSortedByRelevance(ledgerFile.messages)
  /\ \A t \in Tasks : task[t].pc = "lwrite" => IsSortedByRelevance(task[t].lbuf)

\* C10 witness: a merge that had to move a new record in front of the records it read
C10_Witness ==
  \E t \in Tasks :
    /\ task[t].pc = "marksave"
    /\ Len(ledgerFile.messages) >= 2
    /\ ledgerFile.messages[1].relevance > ledgerFile.messages[Len(ledgerFile.messages)].relevance
    /\ ledgerFile.messages[1].id \in BatchIds(task[t].batch)
    /\ ledgerFile.messages[Len(ledgerFile.messages)].id \notin BatchIds(task[t].batch)

\* a record of a ledger, without its notified flag
Content(r) == [id |-> r.id, relevance |-> r.relevance]

\* C11: every record of the persisted relevance ledger is in the ledger after every
\* step, with the same content; only its notified flag may differ.
C11_LedgerAppendOnly ==
  [][\A i \in 1..Len(ledgerFile.messages) :
       \E j \in 1..Len(ledgerFile'.messages) :
         Content(ledgerFile'.messages[j]) = Content(ledgerFile.messages[i])]_vars

\* the continuation points of a cycle from its ranking call on
AfterBatch == {"rank", "merge", "lwrite", "notify", "nread", "nwrite", "marksave"}

\* C12: with invocations one after another, a cycle triggered while the snapshot holds
\* no unprocessed message never gets to the ranking call or beyond it, and no step of
\* its backlog check and batching writes the relevance ledger, delivers or marks.
C12_NoBacklogNoRanking ==
  /\ [](\A t \in Tasks :
          task[t].pc \in AfterBatch
            => AnyUnprocessed(storeFile.messages))
  /\ [][\A t \in Tasks :
          (task[t].pc \in {"check", "batch"} /\ ~AnyUnprocessed(storeFile.messages))
            => /\ task'[t].pc \in {"check", "batch", "idle"}
               /\ ledgerFile' = ledgerFile
               /\ delivered' = delivered
               /\ messages' = messages
               /\ storeFile' = storeFile]_vars

\* C12 witness: a cycle has passed its backlog check by a failed read of a snapshot
\* whose messages are all processed
C12_Witness ==
  \E t \in Tasks :
    /\ task[t].pc = "batch"
    /\ storeFile.exists
    /\ \E g \in DOMAIN storeFile.messages : storeFile.messages[g] # <<>>
    /\ ~AnyUnprocessed(storeFile.messages)

\* C13: when a cycle has delivered its new records and the notification status has
\* been written, each of these records is notified in the persisted ledger exactly
\* when its send succeeded.
C13_NotifiedIffSent ==
  [][\A t \in Tasks :
       (task[t].pc = "nwrite" /\ task'[t].pc = "marksave"
          /\ ledgerFile'.messages = task[t].lbuf)
         => \A k \in 1..Len(task[t].unique) :
              \A i \in 1..Len(ledgerFile'.messages) :
                Content(ledgerFile'.messages[i]) = Content(task[t].unique[k])
                  => (ledgerFile'.messages[i].notified <=> task[t].results[k].ok)]_vars

\* the workers started and not finished
InFlight == {e \in 1..Len(workers) : workers[e].pc \in {"lookup", "named"}}

\* C14: the number of active workers is between 0 and the concurrency limit.
C14_ActiveWithinLimit == activeWorkers >= 0 /\ activeWorkers <= concurrency

\* C14 witness: every worker slot is taken while events wait in the backlog
C14_Witness == activeWorkers = concurrency /\ concurrency = MaxConcurrency /\ Len(queue) > 0

\* C15: an eligible event is in the backlog or has been given to a worker, never both
\* and never twice; an event in the backlog is eventually taken from it.
C15_EveryEventTakenOnce ==
  /\ [](/\ \A i, j \in 1..Len(started) : started[i] = started[j] => i = j
        /\ \A i, j \in 1..Len(queue) : queue[i] = queue[j] => i = j
        /\ \A e \in 1..Len(events) :
             /\ Eligible(events[e]) <=> (e \in SeqToSet(queue) \/ e \in SeqToSet(started))
             /\ ~(e \in SeqToSet(queue) /\ e \in SeqToSet(started)))
  /\ \A e \in 1..MaxEvents :
       (e \in SeqToSet(queue)) ~> (e \in SeqToSet(started) /\ e \notin SeqToSet(queue))

\* C15 witness: with one worker slot, three events have each been taken in turn
C15_Witness ==
  /\ concurrency = 1
  /\ Len(started) >= 3
  /\ queue = <<>>
  /\ \A e \in SeqToSet(started) : workers[e].pc = "done"
  /\ \E e \in SeqToSet(started) : IsGroup(events[e].jid)

\* C16: the slot of every started worker is released exactly once, also when its
\* store call throws: the active count is the number of workers in flight, the step
\* of a throwing worker lowers it by one, touches no other worker, and schedules a
\* drain when the backlog is not empty.
C16_ThrowReleasesSlot ==
  /\ [](activeWorkers = Cardinality(InFlight))
  /\ [][\A e \in 1..Len(workers) :
          (workers[e].pc = "named" /\ workers'[e].pc = "done"
             /\ Invoke("addMessageFast") = "TypeError")
            => /\ activeWorkers' = activeWorkers - 1
               /\ \A f \in 1..Len(workers) : f # e => workers'[f] = workers[f]
               /\ queue' = queue
               /\ (queue # <<>> => immediates' = immediates + 1)]_vars

\* C16 witness: a worker whose store call threw is done, another is still in flight,
\* and a drain is scheduled for the waiting backlog
C16_Witness ==
  /\ \E e \in 1..Len(workers) : workers[e].pc = "done" /\ IsGroup(events[e].jid)
  /\ InFlight # {}
  /\ queue # <<>>
  /\ immediates > 0

\* C17: for every event of a group that a worker has handled to its end, the add
\* operation of the store was invoked exactly once.
C17_StoreInvokedOnce ==
  \A e \in 1..Len(workers) :
    (workers[e].pc = "done" /\ IsGroup(events[e].jid)) => storeCalls[e] = 1

\* C18: workers are started in the order in which their events were appended to the
\* backlog (events are numbered in that order).
C18_FifoAdmission ==
  \A i, j \in 1..Len(started) : i < j => started[i] < started[j]

\* C18 witness: events of two batches have been started while an earlier worker was
\* still in flight
C18_Witness ==
  /\ Len(started) >= 3
  /\ \E e \in InFlight : e < started[Len(started)]
  /\ \E e \in 1..Len(events) : ~Eligible(events[e])

\* C19: with rate limiting on, two calls that passed the rate check for one source are
\* at least 60000/maxMessagesPerMinute ms apart, whatever the earlier call is doing,
\* so a source has no more stored messages than such calls.
C19_RateLimitSpacing ==
  \A g \in Groups :
    /\ \A i \in 1..(Len(acceptedAt[g]) - 1) :
         acceptedAt[g][i + 1] - acceptedAt[g][i] >= 60000 \div maxMessagesPerMinute
    /\ Len(accepted[g]) <= Len(acceptedAt[g])

\* C19 witness: a second event for the source was rejected 1000 ms after the first
\* was accepted, while the first call is still in its human-like delay
C19_Witness ==
  \E t \in Tasks :
    /\ task[t].pc = "delay"
    /\ task[t].g = "g1"
    /\ acceptedAt["g1"] = <<now - 1000>>
    /\ rejects.rate = 1

\* C20: an addMessage call that returns at the filters or at the rate limit changes
\* no ledger, count, rate-limit timestamp or file, creates no ledger and starts no
\* continuation or curation cycle.
C20_RejectionChangesNothing ==
  [][rejects' # rejects
       => /\ messages' = messages
          /\ messageCount' = messageCount
          /\ rateLimiter' = rateLimiter
          /\ arrayId' = arrayId
          /\ storeFile' = storeFile
          /\ ledgerFile' = ledgerFile
          /\ delivered' = delivered
          /\ task' = task]_vars

\* C20 witness: a call has been rejected by the rate limit and the source of the
\* accepted call holds the only ledger
C20_Witness ==
  /\ rejects.rate >= 1
  /\ DOMAIN messages = {"g1"}
  /\ DOMAIN rateLimiter = {"g1"}
  /\ AllIdle

\* the identities of the messages of a ledger map
IdentityOf(map, g) == IF g \in DOMAIN map THEN Identity(map[g]) ELSE <<>>

\* C21 as stated: when the first persist that succeeds is written, every message
\* appended so far (the persist of each earlier one has failed) is in its snapshot.
C21_NextPersistHoldsMessage ==
  [][(~storeFile.exists /\ storeFile'.exists)
       => \A g \in Groups :
            SeqToSet(Identity(accepted[g])) \subseteq SeqToSet(IdentityOf(storeFile'.messages, g))]_vars

\* C21 amended: a failed persist of addMessage changes neither memory nor the file,
\* leaves the appended message in its ledger and ends the call; every snapshot a later
\* persist writes is the in-memory state, which holds the message unless later appends
\* at capacity have evicted it.
C21_FailedPersistKeepsMessage ==
  [][/\ \A t \in Tasks :
          (task[t].pc = "saving" /\ task'[t].pc = "idle")
            => /\ messages' = messages
               /\ storeFile' = storeFile
               /\ task[t].g \in DOMAIN messages'
               /\ \E i \in 1..Len(messages'[task[t].g]) :
                    /\ messages'[task[t].g][i].id = task[t].id
                    /\ messages'[task[t].g][i].seq = task[t].seq
     /\ storeFile' # storeFile
          => /\ storeFile'.messages = messages'
             /\ \A g \in Groups :
                  IdentityOf(storeFile'.messages, g)
                    = Identity(LastN(accepted[g], config.maxMessagesPerGroup))]_vars

\* C21 witness: the persist of the first message has failed (no snapshot exists) and
\* the persist of the second one is writing a snapshot that holds both
C21_Witness ==
  /\ task[1].pc = "saving"
  /\ ~storeFile.exists
  /\ "g1" \in DOMAIN task[1].wbuf
  /\ Len(task[1].wbuf["g1"]) = 2
  /\ task[1].wbuf = messages

\* C22: no source ledger holds two messages with the same id.
C22_SourceIdsUnique ==
  \A g \in DOMAIN messages : \A i, j \in 1..Len(messages[g]) :
    messages[g][i].id = messages[g][j].id => i = j

\* C23: a call of markMessagesAsProcessed leaves every message that is already
\* processed as it is, its processedAt included.
C23_MarkIdempotent ==
  [][\A t \in Tasks :
       (task[t].pc # "marksave" /\ task'[t].pc = "marksave")
         => \A g \in DOMAIN messages : \A i \in 1..Len(messages[g]) :
              messages[g][i].processed => messages'[g][i] = messages[g][i]]_vars

\* some message of the durable snapshot has processed = false
SnapshotHasBacklog ==
  \E g \in DOMAIN storeFile.messages : \E i \in 1..Len(storeFile.messages[g]) :
    storeFile.messages[g][i].processed = FALSE

\* C24 as stated: hasUnprocessedMessages returns true (the cycle goes on to batching)
\* exactly when some message of the snapshot is unprocessed.
C24_TrueIffBacklog ==
  [][\A t \in Tasks :
       (task[t].pc = "check" /\ task'[t].pc # "check")
         => (task'[t].pc = "batch" <=> SnapshotHasBacklog)]_vars

\* C24 amended: hasUnprocessedMessages returns true whenever some message of the
\* snapshot is unprocessed and whenever there is no snapshot to read; it returns false
\* only for a snapshot that exists and holds no unprocessed message.
C24_TrueIffBacklogOrUnreadable ==
  [][\A t \in Tasks :
       (task[t].pc = "check" /\ task'[t].pc # "check")
         => /\ SnapshotHasBacklog => task'[t].pc = "batch"
            /\ ~storeFile.exists => task'[t].pc = "batch"
            /\ task'[t].pc # "batch"
                 => (task'[t].pc = "idle" /\ storeFile.exists /\ ~SnapshotHasBacklog)]_vars

\* C24 witness: the check has returned true for a snapshot whose first message is
\* processed and whose second is not
C24_Witness ==
  /\ task[1].pc = "batch"
  /\ storeFile.exists
  /\ "g1" \in DOMAIN storeFile.messages
  /\ Len(storeFile.messages["g1"]) = 2
  /\ storeFile.messages["g1"][1].processed
  /\ ~storeFile.messages["g1"][2].processed

\* the workers started by a step
StartedNow == SeqToSet(started') \ SeqToSet(started)

\* the cache holds an entry for jid that is younger than the TTL
FreshEntry(jid) ==
  /\ jid \in DOMAIN groupMetadataCache
  /\ now - groupMetadataCache[jid].timestamp < 300000

\* C25: a worker started for a group gets the cached name without a lookup when the
\* cache holds an entry younger than the TTL, and starts the external lookup when the
\* entry is missing or expired; a lookup that succeeds stores its result with the
\* current time.
C25_CacheHitNoLookup ==
  [][/\ \A e \in StartedNow :
          IsGroup(events'[e].jid)
            => /\ groupMetadataCache' = groupMetadataCache
               /\ IF FreshEntry(events'[e].jid)
                  THEN workers'[e] = [pc |-> "named",
                                      name |-> groupMetadataCache[events'[e].jid].name]
                  ELSE workers'[e].pc = "lookup"
     /\ \A e \in 1..Len(workers) :
          (workers[e].pc = "lookup" /\ workers'[e].pc = "named"
             /\ workers'[e].name # UnknownGroup)
            => /\ events[e].jid \in DOMAIN groupMetadataCache'
               /\ groupMetadataCache'[events[e].jid] =
                    [name |-> workers'[e].name, timestamp |-> now]
               /\ workers'[e].name = SubjectOf(events[e].jid)]_vars

\* C25 witness: with one worker slot, a worker has its name from the entry an earlier,
\* finished worker of the same group left in the cache some time ago (the entry was
\* there when it started and has not been refreshed)
C25_Witness ==
  /\ concurrency = 1
  /\ \E e1, e2 \in 1..Len(workers) :
       /\ e1 < e2
       /\ events[e1].jid = events[e2].jid
       /\ workers[e1] = [pc |-> "done", name |-> SubjectOf(events[e1].jid)]
       /\ workers[e2] = [pc |-> "named", name |-> SubjectOf(events[e2].jid)]
       /\ FreshEntry(events[e2].jid)
       /\ groupMetadataCache[events[e2].jid].timestamp < now
       /\ groupMetadataCache[events[e2].jid].timestamp = minInterval

\* C26: a lookup that fails gives the placeholder name and leaves the cache as it is;
\* with one worker slot the source then has no entry younger than the TTL, so the
\* next worker of that source starts the lookup again.
C26_FailedLookupNotCached ==
  [][\A e \in 1..Len(workers) :
       (workers[e].pc = "lookup" /\ workers'[e].pc = "named"
          /\ workers'[e].name # SubjectOf(events[e].jid))
         => /\ workers'[e].name = UnknownGroup
            /\ groupMetadataCache' = groupMetadataCache
            /\ concurrency = 1
                 => ~(/\ events[e].jid \in DOMAIN groupMetadataCache'
                      /\ now' - groupMetadataCache'[events[e].jid].timestamp < 300000)]_vars

\* C26 witness: with one worker slot, a worker got the placeholder, is done, and the
\* next worker of the same group is in its external lookup
C26_Witness ==
  /\ concurrency = 1
  /\ \E e1, e2 \in 1..Len(workers) :
       /\ e1 < e2
       /\ events[e1].jid = events[e2].jid
       /\ workers[e1] = [pc |-> "done", name |-> UnknownGroup]
       /\ workers[e2].pc = "lookup"
       /\ \A e \in 1..(e2 - 1) : IsGroup(events[e].jid) => workers[e].name = UnknownGroup

\* the continuation points of an invocation that has not ended
TaskPoints ==
  {"idle", "delay", "process", "saving", "check", "batch", "rank", "merge", "lwrite",
   "notify", "nread", "nwrite", "marksave"}

\* the points at which a queue worker can be
WorkerPoints == {"backlog", "dropped", "lookup", "named", "done"}

\* C27: no invocation of addMessage or of the curation trigger and no queue worker
\* ends by an exception that leaves it: whatever rejects, each of them is at one of
\* its continuation points or has returned.
C27_NoExceptionEscapes ==
  /\ \A t \in Tasks : task[t].pc \in TaskPoints
  /\ \A e \in 1..Len(workers) : workers[e].pc \in WorkerPoints

\* C27 witness: a cycle has ended in which the send of the new record failed and the
\* persist of the marking failed (the record is not notified, nothing was delivered,
\* the message is processed in memory and unprocessed in the snapshot), and a worker
\* is done after a failed metadata lookup and a store call that threw
C27_Witness ==
  /\ AllIdle
  /\ Len(ledgerFile.messages) = 1
  /\ ~ledgerFile.messages[1].notified
  /\ delivered[ledgerFile.messages[1].id] = 0
  /\ \A g \in DOMAIN messages : \A i \in 1..Len(messages[g]) : messages[g][i].processed
  /\ SnapshotHasBacklog
  /\ \E e \in 1..Len(workers) :
       workers[e] = [pc |-> "done", name |-> UnknownGroup] /\ storeCalls[e] = 0

\* C28: no event with key.fromMe is in the backlog or was given to a worker, and no
\* stored message, in memory or in the snapshot, comes from such an event.
C28_NoSelfOriginated ==
  /\ \A e \in SeqToSet(queue) \cup SeqToSet(started) : ~events[e].fromMe
  /\ \A g \in DOMAIN messages : \A i \in 1..Len(messages[g]) : ~messages[g][i].isBot
  /\ \A g \in DOMAIN storeFile.messages :
       \A i \in 1..Len(storeFile.messages[g]) : ~storeFile.messages[g][i].isBot
  /\ \A t \in Tasks : ~task[t].fromMe

\* C28 witness: a batch with a self-originated event and an event of a group has been
\* given to the queue, the first was dropped and the second started, and a call of
\* addMessage has been rejected by the filters
C28_Witness ==
  /\ \E e \in 1..Len(events) : events[e].fromMe /\ workers[e].pc = "dropped"
  /\ started # <<>>
  /\ rejects.filters = 1

\* C29: the ledger a merge writes holds every record of the ledger before it with the
\* same content and, beside these, exactly one record for each candidate that has an
\* included item and whose id the ledger did not hold; an item that names no
\* candidate adds nothing.
C29_MergeAppendsIncluded ==
  [][\A t \in Tasks :
       (task[t].pc = "lwrite" /\ task'[t].pc \in {"notify", "marksave"})
         => LET old == ledgerFile.messages
                new == ledgerFile'.messages
                want == LedgerIds(task[t].newRel) \ LedgerIds(old)
            IN /\ \A i \in 1..Len(old) :
                    \E j \in 1..Len(new) : Content(new[j]) = Content(old[i])
               /\ LedgerIds(new) = LedgerIds(old) \cup want
               /\ Len(new) = Len(old) + Cardinality(want)
               /\ want \subseteq BatchIds(task[t].batch)]_vars

\* the messages of the snapshot that are not processed, as source and position
SnapshotBacklog ==
  {<<g, i>> \in Groups \X (1..MaxCalls) :
     /\ g \in DOMAIN storeFile.messages
     /\ i <= Len(storeFile.messages[g])
     /\ storeFile.messages[g][i].processed = FALSE}

\* C30: the batch a cycle gives to the ranking call holds one candidate, tagged with
\* the source id, for every unprocessed message of the snapshot, and nothing else.
C30_BatchIsSnapshotBacklog ==
  [][\A t \in Tasks :
       (task[t].pc = "batch" /\ task'[t].pc = "rank")
         => LET batch == task'[t].batch
            IN /\ Len(batch) = Cardinality(SnapshotBacklog)
               /\ \A p \in SnapshotBacklog :
                    \E k \in 1..Len(batch) :
                      batch[k] = [id |-> storeFile.messages[p[1]][p[2]].id,
                                  seq |-> storeFile.messages[p[1]][p[2]].seq,
                                  groupId |-> p[1]]
               /\ \A k \in 1..Len(batch) :
                    \E p \in SnapshotBacklog :
                      /\ batch[k].groupId = p[1]
                      /\ batch[k].id = storeFile.messages[p[1]][p[2]].id
                      /\ batch[k].seq = storeFile.messages[p[1]][p[2]].seq]_vars

\* C30 witness: a batch of two candidates from two sources, taken from a snapshot
\* that also holds a processed message
C30_Witness ==
  /\ task[1].pc = "rank"
  /\ Len(task[1].batch) = 2
  /\ task[1].batch[1].groupId # task[1].batch[2].groupId
  /\ \E g \in DOMAIN storeFile.messages : \E i \in 1..Len(storeFile.messages[g]) :
       storeFile.messages[g][i].processed

\* the invocation t comes to the point p by this step
Enters(t, p) == task'[t].pc = p /\ task[t].pc # p

\* C31: a cycle comes to its batch from the backlog check, to the ranking from the
\* batch, to the merge from the ranking, to the ledger write from the merge, and to the
\* delivery only by a ledger write that persists every new record, of which there is
\* at least one; nothing is sent but by a cycle in its delivery.
C31_CycleOrder ==
  [][/\ \A t \in Tasks :
          /\ Enters(t, "batch") => task[t].pc = "check"
          /\ Enters(t, "rank") => task[t].pc = "batch"
          /\ Enters(t, "merge") => task[t].pc = "rank"
          /\ Enters(t, "lwrite") => task[t].pc = "merge"
          /\ Enters(t, "notify")
               => /\ task[t].pc = "lwrite"
                  /\ task'[t].unique # <<>>
                  /\ \A k \in 1..Len(task'[t].unique) :
                       \E j \in 1..Len(ledgerFile'.messages) :
                         ledgerFile'.messages[j] = task'[t].unique[k]
     /\ delivered' # delivered => \E t \in Tasks : task[t].pc = "notify"]_vars

\* C31 witness: a cycle has sent the first of its two new records, both of which are
\* in the persisted ledger
C31_Witness ==
  \E t \in Tasks :
    /\ task[t].pc = "notify"
    /\ Len(task[t].unique) = 2
    /\ Len(task[t].results) = 1
    /\ task[t].results[1].ok
    /\ \A k \in 1..2 : \E j \in 1..Len(ledgerFile.messages) :
         ledgerFile.messages[j] = task[t].unique[k]

\* the message accepted as the s-th call is in the ledger of g in msgs with the flag p
HasFlag(msgs, g, s, p) ==
  /\ g \in DOMAIN msgs
  /\ \E i \in 1..Len(msgs[g]) : msgs[g][i].seq = s /\ msgs[g][i].processed = p

\* C32: a message that is in the durable snapshot with processed=false is in the end
\* marked processed (in memory or in the snapshot) or is no longer in the in-memory
\* ledger of its source (evicted or cleared).
C32_EventuallyProcessed ==
  \A g \in Groups, s \in 1..MaxOverlapCalls :
    (storeFile.exists /\ HasFlag(storeFile.messages, g, s, FALSE))
      ~> \/ HasFlag(messages, g, s, TRUE)
         \/ HasFlag(storeFile.messages, g, s, TRUE)
         \/ ~(HasFlag(messages, g, s, FALSE) \/ HasFlag(messages, g, s, TRUE))

\* C33: the step by which an addMessage call leaves its persist with the snapshot
\* written takes it to the backlog check of a curation cycle; a backlog check is
\* entered only from a persist, at the step that puts the call's snapshot in the file,
\* or from a manual trigger, so its read comes after the persist completed.
C33_PersistThenCycle ==
  [][\A t \in Tasks :
       /\ task[t].pc = "saving" /\ task'[t].pc # "saving" /\ storeFile' # storeFile
            => task'[t].pc = "check"
       /\ Enters(t, "check")
            => \/ task[t].pc = "idle"
               \/ /\ task[t].pc = "saving"
                  /\ storeFile' = [exists |-> TRUE, messages |-> task[t].wbuf]]_vars

\* C33 witness: the only call so far is an addMessage whose persist has completed and
\* whose cycle is at its backlog check, the appended message being in the snapshot
C33_Witness ==
  /\ nCalls = 1
  /\ \E t \in Tasks : task[t].pc = "check"
  /\ storeFile.exists
  /\ \E g \in Groups : HasFlag(storeFile.messages, g, 1, FALSE)

\* the results so far answer the first records of the input, one each, in order
ResultsFollowInput(t) ==
  /\ Len(task[t].results) <= Len(task[t].unique)
  /\ \A k \in 1..Len(task[t].results) : task[t].results[k].id = task[t].unique[k].id

\* C34: while a delivery runs its results answer the records sent so far, one each
\* and in the order of the input, and when it has returned there is one result per
\* record; each step of the delivery is the attempt for the next record, sends that
\* record at most once, and the delivery goes on after a failed attempt and ends
\* only with the last record.
C34_OneAttemptPerRecord ==
  /\ [](\A t \in Tasks :
          /\ task[t].pc = "notify"
               => ResultsFollowInput(t) /\ Len(task[t].results) < Len(task[t].unique)
          /\ task[t].pc \in {"nread", "nwrite"}
               => ResultsFollowInput(t) /\ Len(task[t].results) = Len(task[t].unique))
  /\ [][\A t \in Tasks :
          task[t].pc = "notify" /\ task'[t] # task[t]
            => LET i == Len(task[t].results) + 1
                   id == task[t].unique[i].id
               IN /\ \/ delivered' = delivered
                     \/ delivered' = [delivered EXCEPT ![id] = @ + 1]
                  /\ IF i < Len(task[t].unique)
                     THEN /\ task'[t].pc = "notify"
                          /\ Len(task'[t].results) = i
                          /\ SubSeq(task'[t].results, 1, i - 1) = task[t].results
                          /\ task'[t].results[i].ok = (delivered' # delivered)
                     ELSE \/ /\ task'[t].pc = "nread"
                             /\ Len(task'[t].results) = i
                             /\ SubSeq(task'[t].results, 1, i - 1) = task[t].results
                          \/ /\ task'[t].pc = "marksave"
                             /\ delivered' = delivered
                             /\ \A k \in 1..Len(task[t].results) : ~task[t].results[k].ok]_vars

\* C34 witness: a delivery of two records has returned with a failure for the first
\* record and a success for the second
C34_Witness ==
  \E t \in Tasks :
    /\ task[t].pc = "nread"
    /\ Len(task[t].unique) = 2
    /\ ~task[t].results[1].ok
    /\ task[t].results[2].ok

\* the map after is the map before without the entry of g
WithoutEntry(after, before, g) ==
  /\ DOMAIN after = DOMAIN before \ {g}
  /\ \A h \in DOMAIN after : after[h] = before[h]

\* C35: a clear command leaves the durable snapshot and the relevance ledger as they
\* are; it either empties the ledgers, counts and rate-limit timestamps (clearAll) or
\* takes out the entries of one source and leaves those of every other source
\* unchanged (clear of that source).
C35_ClearTouchesOnlyItsSource ==
  [][nClears' # nClears
       => /\ storeFile' = storeFile
          /\ ledgerFile' = ledgerFile
          /\ \/ /\ DOMAIN messages' = {}
                /\ DOMAIN messageCount' = {}
                /\ DOMAIN rateLimiter' = {}
             \/ \E g \in Groups :
                  /\ WithoutEntry(messages', messages, g)
                  /\ WithoutEntry(messageCount', messageCount, g)
                  /\ WithoutEntry(rateLimiter', rateLimiter, g)]_vars

\* C35 witness: g1 has been cleared after both sources had stored a message; g2 keeps
\* its ledger, count and timestamp, and the snapshot still holds g1
C35_Witness ==
  /\ nClears = 1
  /\ "g1" \notin DOMAIN messages \cup DOMAIN messageCount \cup DOMAIN rateLimiter
  /\ "g2" \in DOMAIN messages /\ messages["g2"] # <<>>
  /\ "g2" \in DOMAIN messageCount
  /\ "g2" \in DOMAIN rateLimiter
  /\ storeFile.exists /\ "g1" \in DOMAIN storeFile.messages
  /\ storeFile.messages["g1"] # <<>>

\* the step is the rejection of a cycle's ledger write
LedgerWriteFails == failedBatch' # failedBatch /\ failedBatch' # <<>>

\* the rejection of a ledger write delivers nothing, marks nothing, changes neither
\* file and lets the trigger return
FailedMergeChangesNothing ==
  LedgerWriteFails
    => /\ delivered' = delivered
       /\ messages' = messages
       /\ storeFile' = storeFile
       /\ ledgerFile' = ledgerFile
       /\ \E t \in Tasks : task[t].pc = "lwrite" /\ task'[t].pc = "idle"

\* the candidate is in the in-memory ledger of its source with processed=false
StillPending(c) == HasFlag(messages, c.groupId, c.seq, FALSE)

\* C36 as stated: a rejected ledger write delivers and marks nothing and the trigger
\* returns, and the next trigger finds a backlog and forms a batch that holds every
\* candidate of the failed cycle.
C36_FailedBatchBatchedAgain ==
  [][/\ FailedMergeChangesNothing
     /\ \A t \in Tasks :
          failedBatch # <<>>
            => /\ task[t].pc = "check" /\ task'[t].pc # "check" => task'[t].pc = "batch"
               /\ task[t].pc = "batch" /\ task'[t].pc # "batch"
                    => /\ task'[t].pc = "rank"
                       /\ SeqToSet(failedBatch) \subseteq SeqToSet(task'[t].batch)]_vars

\* C36, amended: a rejected ledger write delivers and marks nothing and the trigger
\* returns; every candidate of the failed cycle that is still in the in-memory ledger
\* with processed=false (not evicted since, not marked by an earlier cycle) is in the
\* next batch formed, and the next trigger finds no backlog only when there is no
\* such candidate.
C36_PendingCandidatesBatchedAgain ==
  [][/\ FailedMergeChangesNothing
     /\ \A t \in Tasks :
          /\ task[t].pc = "check" /\ task'[t].pc = "idle"
               => \A k \in 1..Len(failedBatch) : ~StillPending(failedBatch[k])
          /\ task[t].pc = "batch" /\ task'[t].pc = "rank"
               => \A k \in 1..Len(failedBatch) :
                    StillPending(failedBatch[k])
                      => failedBatch[k] \in SeqToSet(task'[t].batch)]_vars

\* C36 witness: after a rejected ledger write the next trigger has found the backlog
\* and is about to form its batch; the candidate of the failed cycle is unprocessed in
\* memory, nothing has been delivered, and the snapshot offers the candidate again
C36_Witness ==
  /\ failedBatch # <<>>
  /\ StillPending(failedBatch[1])
  /\ \A i \in MsgIds : delivered[i] = 0
  /\ \E t \in Tasks : task[t].pc = "batch"
  /\ storeFile.exists
  /\ failedBatch[1] \in SeqToSet(formatMessagesForCuration(storeFile.messages))

\* C37: a record that is in the persisted relevance ledger with notified=true is not
\* in the ledger with notified=false after any step.
C37_NotifiedStaysTrue ==
  [][\A i \in 1..Len(ledgerFile.messages) :
       ledgerFile.messages[i].notified
         => \A j \in 1..Len(ledgerFile'.messages) :
              Content(ledgerFile'.messages[j]) = Content(ledgerFile.messages[i])
                => ledgerFile'.messages[j].notified]_vars

\* C38: no step replaces the durable snapshot by an older one; in particular a message
\* that is in the durable snapshot with processed=true is not in it with
\* processed=false after any step.
C38_ProcessedNeverReverted ==
  [][\A g \in Groups, s \in 1..MaxOverlapCalls :
       storeFile.exists /\ HasFlag(storeFile.messages, g, s, TRUE)
         => ~HasFlag(storeFile'.messages, g, s, FALSE)]_vars

\* C39: the step by which an addMessage call appends its message leaves the message
\* in the in-memory ledger of its source, where getGroupMessages finds it, and in the
\* snapshot the call then starts to persist, whether or not the source was cleared
\* while the call was suspended.
C39_AppendVisibleAfterClear ==
  [][\A t \in Tasks :
       task[t].pc = "process" /\ task'[t].pc = "saving"
         => /\ HasFlag(messages', task[t].g, task[t].seq, FALSE)
            /\ HasFlag(task'[t].wbuf, task[t].g, task[t].seq, FALSE)]_vars

====
